---- MODULE Spec2Model ----
(***************************************************************************)
(* Model of r2s4 (Spent Spool Storage System): the part assemblers of      *)
(* r2s4.py and the batch driver generate_all.py.                           *)
(*                                                                         *)
(* Numbers.  Python floats are modelled in fixed point: every length is in *)
(* hundredths of a millimetre and every angle in hundredths of a degree,   *)
(* so 0.25 mm is 25 and 15 degrees is 1500.                                *)
(*                                                                         *)
(* Solids.  The geometry kernel (cadquery) is external.  A solid is        *)
(* modelled by its construction history: the sequence of kernel operations *)
(* that produced it, each with the numbers handed to the kernel.  A        *)
(* boolean operation carries the history of its tool solid.                *)
(***************************************************************************)
EXTENDS Integers, Sequences, FiniteSets, TLC

(***************************************************************************)
(* Module-level constants of r2s4.py                                       *)
(***************************************************************************)
nozzle_diameter == 40
beyond_edge == 1000
ring_depth == 600
ring_height == 400
ring_chamfer == 200
tray_edge_fillet == 200
tray_top_chamfer == ring_chamfer
latch_depth == 500
latch_protrude == 50
handle_sphere_size == 1500
handle_cut_depth == 500

\* the value of additional_clearance in the file
shipped_clearance == 25

\* The module globals that depend on the configured clearance: line 64 is the
\* value the user adjusts, line 86 is computed from it once, at import.
Module(clearance) ==
    [additional_clearance |-> clearance,
     latch_gap            |-> latch_protrude + clearance]

(***************************************************************************)
(* Python arithmetic                                                       *)
(***************************************************************************)
\* int(x) of a float: truncation toward zero, result in whole units
int(x) == IF x >= 0 THEN x \div 100 ELSE -((-x) \div 100)

\* int(a / b) of two whole numbers, b # 0: true division, then truncation
int_div(a, b) ==
    LET n == IF a >= 0 THEN a ELSE -a
        d == IF b >= 0 THEN b ELSE -b
        q == n \div d
    IN  IF (a >= 0) = (b >= 0) THEN q ELSE -q

\* range(start, stop, step) for step > 0
RECURSIVE range(_, _, _)
range(start, stop, step) ==
    IF start >= stop THEN << >>
    ELSE << start >> \o range(start + step, stop, step)

(***************************************************************************)
(* Geometry kernel operations, recorded in the history of the solid        *)
(***************************************************************************)
KernelOp(op, what, dims, text, tool) ==
    [op |-> op, what |-> what, dims |-> dims, text |-> text, tool |-> tool]

\* a profile or sketch turned into a new solid: revolve, extrude, loft, sphere
NewSolid(op, what, dims) == << KernelOp(op, what, dims, << >>, << >>) >>

\* base + tool, base - tool, base.intersect(tool)
union(base, what, tool) ==
    Append(base, KernelOp("union", what, << >>, << >>, tool))
subtract(base, what, tool) ==
    Append(base, KernelOp("subtract", what, << >>, << >>, tool))
intersect(base, what, tool) ==
    Append(base, KernelOp("intersect", what, << >>, << >>, tool))

\* .edges("|Z").fillet(r) and .faces("+Z").shell(-t)
fillet(solid, selector, radius) ==
    Append(solid, KernelOp("fillet", selector, << radius >>, << >>, << >>))
shell(solid, selector, thickness) ==
    Append(solid, KernelOp("shell", selector, << thickness >>, << >>, << >>))

(***************************************************************************)
(* Profile for inner ring segments                                         *)
(***************************************************************************)
\* points (x, z) of the closed polyline, starting at the workplane origin
ring_root_profile(inner_radius) ==
    << 0, 0,
       0, ring_height,
       inner_radius + ring_depth, ring_height,
       inner_radius + ring_depth + ring_height, 0 >>

revolve(what, profile, angle) == NewSolid("revolve", what, profile \o << angle >>)

(***************************************************************************)
(* Side rails                                                              *)
(***************************************************************************)
rail(rail_index, outer_radius, wedge_size) ==
    LET mirror == IF rail_index = 0 THEN 1 ELSE -1
    IN  NewSolid("extrude", "rail",
                 << wedge_size * rail_index,
                    0, 0,
                    0, ring_height,
                    (ring_height * mirror) \div 2, 0,
                    outer_radius >>)

add_side_rails(m, base, inner_radius, outer_radius, height, wedge_size) ==
    LET base0 == union(base, "rail", rail(0, outer_radius, wedge_size))
        base1 == union(base0, "rail", rail(1, outer_radius, wedge_size))
        cleanup == NewSolid("extrude", "rail_cleanup",
                            << outer_radius,
                               inner_radius + m.additional_clearance,
                               height * 2 >>)
    IN  intersect(base1, "rail_cleanup", cleanup)

(***************************************************************************)
(* Outer fence with its retention tab                                      *)
(***************************************************************************)
build_outer_fence(m, outer_radius, wedge_size) ==
    LET fence == revolve("fence",
                   << outer_radius - latch_depth + latch_protrude + m.latch_gap, 0,
                      outer_radius - latch_depth + m.latch_gap, ring_height,
                      outer_radius, ring_height,
                      outer_radius, 0 >>,
                   wedge_size)
        fence_tab_ball == NewSolid("sphere", "fence_tab_ball",
                   << wedge_size \div 2,
                      outer_radius - handle_sphere_size + handle_cut_depth \div 2,
                      ring_height \div 2,
                      handle_sphere_size >>)
        fence_tab_keep == revolve("fence_tab_keep",
                   << outer_radius, 0,
                      outer_radius, ring_height,
                      outer_radius + handle_sphere_size, ring_height,
                      outer_radius + handle_sphere_size, 0 >>,
                   wedge_size)
    IN  union(fence, "fence_tab",
              intersect(fence_tab_ball, "fence_tab_keep", fence_tab_keep))

(***************************************************************************)
(* Interlink claws                                                         *)
(***************************************************************************)
ring_claw_span == 200
ring_claw_rake == 50
ring_claw_gap == 50
ring_claw_thickness == nozzle_diameter * 4

\* dims: radius_inner, radius_outer, then the four corner angles; the top
\* face of the loft is the same outline with both radii less ring_height
build_partial_ring_parallelgram(radius_inner, radius_outer, angle_start_inner, angle_start_outer, angle_end_inner, angle_end_outer) ==
    NewSolid("loft", "partial_ring",
             << radius_inner, radius_outer,
                angle_start_inner, angle_start_outer,
                angle_end_inner, angle_end_outer >>)

build_partial_ring_rect(radius_inner, radius_outer, angle_start, angle_end) ==
    build_partial_ring_parallelgram(radius_inner, radius_outer,
                                    angle_start, angle_start,
                                    angle_end, angle_end)

claw_outer_radius(inner_radius) ==
    inner_radius + ring_depth + ring_height - nozzle_diameter * 4

claw_slot_outer(inner_radius) ==
    build_partial_ring_rect(
        inner_radius + ring_chamfer + ring_claw_thickness,
        claw_outer_radius(inner_radius),
        0,
        ring_claw_span + ring_claw_gap)

\* the outer arm filling its slot up to the slot's outer wall
claw_arm_outer_tight(inner_radius, wedge_size) ==
    build_partial_ring_rect(
        claw_outer_radius(inner_radius) - ring_claw_thickness,
        claw_outer_radius(inner_radius),
        wedge_size,
        wedge_size + ring_claw_span)

claw_arm_outer(inner_radius, wedge_size) ==
    build_partial_ring_rect(
        claw_outer_radius(inner_radius) - nozzle_diameter - ring_claw_thickness,
        claw_outer_radius(inner_radius) - nozzle_diameter,
        wedge_size,
        wedge_size + ring_claw_span)

claw_slot_inner(inner_radius, wedge_size) ==
    build_partial_ring_rect(
        inner_radius + ring_chamfer,
        claw_outer_radius(inner_radius) - nozzle_diameter - ring_claw_thickness,
        wedge_size,
        wedge_size - ring_claw_span - ring_claw_gap)

claw_arm_inner(inner_radius) ==
    build_partial_ring_rect(
        inner_radius + ring_chamfer,
        inner_radius + ring_chamfer + ring_claw_thickness,
        0,
        -ring_claw_span)

claw_tip_outer(inner_radius, wedge_size) ==
    LET tip == build_partial_ring_parallelgram(
            claw_outer_radius(inner_radius) - nozzle_diameter - ring_claw_thickness,
            inner_radius + ring_chamfer + ring_claw_thickness,
            wedge_size + ring_claw_rake,
            wedge_size - ring_claw_rake,
            wedge_size + ring_claw_span,
            wedge_size + ring_claw_span - ring_claw_rake * 2)
        claw_tip_outer_clearance == build_partial_ring_rect(
            inner_radius + ring_chamfer + ring_claw_thickness + nozzle_diameter,
            inner_radius,
            wedge_size - ring_claw_rake,
            wedge_size + ring_claw_span)
    IN  subtract(tip, "claw_tip_outer_clearance", claw_tip_outer_clearance)

claw_tip_inner(inner_radius) ==
    LET tip == build_partial_ring_parallelgram(
            inner_radius + ring_chamfer + ring_claw_thickness - 10,
            claw_outer_radius(inner_radius) - nozzle_diameter - ring_claw_thickness,
            -ring_claw_span,
            -ring_claw_span + ring_claw_rake * 2,
            -ring_claw_rake,
            ring_claw_rake)
        claw_tip_inner_clearance == build_partial_ring_rect(
            claw_outer_radius(inner_radius) - nozzle_diameter * 2 - ring_claw_thickness,
            claw_outer_radius(inner_radius),
            -ring_claw_span,
            ring_claw_rake)
    IN  subtract(tip, "claw_tip_inner_clearance", claw_tip_inner_clearance)

\* interlink_claws with the bore cleanup taken before the claw tips are
\* added
interlink_claws_cleanup_before_tips(m, base, inner_radius, wedge_size) ==
    LET base1 == subtract(base, "claw_slot_outer", claw_slot_outer(inner_radius))
        base2 == union(base1, "claw_arm_outer",
                       claw_arm_outer(inner_radius, wedge_size))
        base3 == subtract(base2, "claw_slot_inner",
                          claw_slot_inner(inner_radius, wedge_size))
        base4 == union(base3, "claw_arm_inner", claw_arm_inner(inner_radius))
        cleanup == NewSolid("extrude", "bore_cleanup",
                            << inner_radius + m.additional_clearance,
                               ring_height >>)
        base5 == subtract(base4, "bore_cleanup", cleanup)
        base6 == union(base5, "claw_tip_outer",
                       claw_tip_outer(inner_radius, wedge_size))
    IN  union(base6, "claw_tip_inner", claw_tip_inner(inner_radius))

interlink_claws(m, base, inner_radius, wedge_size) ==
    LET base1 == subtract(base, "claw_slot_outer", claw_slot_outer(inner_radius))
        base2 == union(base1, "claw_arm_outer",
                       claw_arm_outer(inner_radius, wedge_size))
        base3 == subtract(base2, "claw_slot_inner",
                          claw_slot_inner(inner_radius, wedge_size))
        base4 == union(base3, "claw_arm_inner", claw_arm_inner(inner_radius))
        base5 == union(base4, "claw_tip_outer",
                       claw_tip_outer(inner_radius, wedge_size))
        base6 == union(base5, "claw_tip_inner", claw_tip_inner(inner_radius))
        \* Result of extrusion pokes into spool cylinder volume. Cut that off.
        cleanup == NewSolid("extrude", "bore_cleanup",
                            << inner_radius + m.additional_clearance,
                               ring_height >>)
    IN  subtract(base6, "bore_cleanup", cleanup)

\* build_base with the inner corner chamfer cut taken before the interlink
\* mechanism is applied
build_base_chamfer_first(m, inner_radius, spool_outer_radius, spool_height, wedge_size) ==
    LET outer_radius == spool_outer_radius + beyond_edge
        height == spool_height - ring_height
        base0 == revolve("ring_root_profile",
                         ring_root_profile(inner_radius), wedge_size)
        base1 == add_side_rails(m, base0, inner_radius, outer_radius,
                                height, wedge_size)
        base2 == union(base1, "outer_fence",
                       build_outer_fence(m, outer_radius, wedge_size))
        ring_chamfer_cut == revolve("ring_chamfer_cut",
                                    << 0, 0,
                                       inner_radius + ring_chamfer, 0,
                                       inner_radius, ring_chamfer >>,
                                    wedge_size)
        base3 == subtract(base2, "ring_chamfer_cut", ring_chamfer_cut)
    IN  interlink_claws(m, base3, inner_radius, wedge_size)

(***************************************************************************)
(* build_base                                                              *)
(***************************************************************************)
build_base(m, inner_radius, spool_outer_radius, spool_height, wedge_size) ==
    LET outer_radius == spool_outer_radius + beyond_edge
        height == spool_height - ring_height
        base0 == revolve("ring_root_profile",
                         ring_root_profile(inner_radius), wedge_size)
        base1 == add_side_rails(m, base0, inner_radius, outer_radius,
                                height, wedge_size)
        base2 == union(base1, "outer_fence",
                       build_outer_fence(m, outer_radius, wedge_size))
        base3 == interlink_claws(m, base2, inner_radius, wedge_size)
        ring_chamfer_cut == revolve("ring_chamfer_cut",
                                    << 0, 0,
                                       inner_radius + ring_chamfer, 0,
                                       inner_radius, ring_chamfer >>,
                                    wedge_size)
    IN  subtract(base3, "ring_chamfer_cut", ring_chamfer_cut)

\* build_placeholder cut by the ring root swept over the wedge only
build_placeholder_wedge_sweep(m, inner_radius, spool_outer_radius, spool_height, wedge_size) ==
    intersect(build_base(m, inner_radius, spool_outer_radius,
                         spool_height, wedge_size),
              "ring_root_sweep",
              revolve("ring_root_profile",
                      ring_root_profile(inner_radius), wedge_size))

(***************************************************************************)
(* build_placeholder                                                       *)
(***************************************************************************)
build_placeholder(m, inner_radius, spool_outer_radius, spool_height, wedge_size) ==
    intersect(build_base(m, inner_radius, spool_outer_radius,
                         spool_height, wedge_size),
              "ring_root_sweep",
              revolve("ring_root_profile",
                      ring_root_profile(inner_radius), 36000))

(***************************************************************************)
(* Tray features                                                           *)
(***************************************************************************)
top_edge(edge_index, outer_radius, height, wedge_size) ==
    LET mirror == IF edge_index = 0 THEN 1 ELSE -1
    IN  NewSolid("extrude", "top_edge",
                 << wedge_size * edge_index,
                    0, height - tray_top_chamfer,
                    0, height,
                    (mirror * tray_top_chamfer) \div 2, height,
                    outer_radius >>)

bottom_edge(m, edge_index, outer_radius, wedge_size) ==
    LET mirror == IF edge_index = 0 THEN 1 ELSE -1
    IN  NewSolid("extrude", "bottom_edge",
                 << wedge_size * edge_index,
                    0, 0,
                    0, ring_height + m.additional_clearance,
                    (ring_height * mirror) \div 2 + mirror * m.additional_clearance, 0,
                    outer_radius >>)

chamfer_tray_radial_edges(m, tray, outer_radius, height, wedge_size) ==
    LET tray1 == subtract(tray, "top_edge",
                          top_edge(0, outer_radius, height, wedge_size))
        tray2 == subtract(tray1, "bottom_edge",
                          bottom_edge(m, 0, outer_radius, wedge_size))
        tray3 == subtract(tray2, "top_edge",
                          top_edge(1, outer_radius, height, wedge_size))
    IN  subtract(tray3, "bottom_edge",
                 bottom_edge(m, 1, outer_radius, wedge_size))

handle_width_half == 200

add_handle(tray, outer_radius, height, wedge_size) ==
    LET handle_cutout == NewSolid("sphere", "handle_cutout",
            << wedge_size \div 2,
               outer_radius + handle_sphere_size - handle_cut_depth,
               height \div 2,
               handle_sphere_size >>)
        handle_keep == NewSolid("extrude", "handle_keep",
            << wedge_size \div 2,
               outer_radius - handle_cut_depth, handle_width_half,
               outer_radius + handle_sphere_size, handle_width_half,
               outer_radius + handle_sphere_size, -handle_width_half,
               outer_radius - handle_cut_depth, -handle_width_half,
               height >>)
        tray1 == subtract(tray, "handle_cutout",
                          subtract(handle_cutout, "handle_keep", handle_keep))
        handle_add == NewSolid("sphere", "handle_add",
            << wedge_size \div 2,
               outer_radius - handle_sphere_size + handle_cut_depth,
               height \div 2,
               handle_sphere_size >>)
    IN  union(tray1, "handle_add",
              intersect(handle_add, "handle_keep", handle_keep))

(***************************************************************************)
(* Reinforcement ribs                                                      *)
(***************************************************************************)
rib_spacing_target == 750
rib_size_bottom == 300
rib_size_top == 100

\* whole millimetres
rib_span(inner_radius, outer_radius) ==
    int(outer_radius - beyond_edge - inner_radius)

rib_count(inner_radius, outer_radius) ==
    int_div(rib_span(inner_radius, outer_radius) * 100, rib_spacing_target)

\* the target spacing used as it is, not recomputed from the span
rib_spacing_not_recomputed(inner_radius, outer_radius) ==
    int(rib_spacing_target)

\* evaluated only when rib_count is not 0: Python raises ZeroDivisionError
\* on this line otherwise
rib_spacing(inner_radius, outer_radius) ==
    int_div(rib_span(inner_radius, outer_radius),
            rib_count(inner_radius, outer_radius))

rib(rib_angle, inner_radius, rib_radius, height) ==
    NewSolid("loft", "rib",
             << rib_angle, inner_radius + rib_radius * 100,
                6, rib_size_bottom, height, rib_size_top >>)

RECURSIVE cut_ribs_at(_, _, _, _, _)
cut_ribs_at(tray, rib_angle, radii, inner_radius, height) ==
    IF radii = << >> THEN tray
    ELSE cut_ribs_at(subtract(tray, "rib",
                              rib(rib_angle, inner_radius, Head(radii), height)),
                     rib_angle, Tail(radii), inner_radius, height)

cut_reinforcement_ribs(tray, inner_radius, outer_radius, height, wedge_size) ==
    LET span == rib_span(inner_radius, outer_radius)
        spacing == rib_spacing(inner_radius, outer_radius)
        radii == range(spacing, span, spacing)
        tray1 == cut_ribs_at(tray, 0, radii, inner_radius, height)
    IN  cut_ribs_at(tray1, wedge_size, radii, inner_radius, height)

(***************************************************************************)
(* Label                                                                   *)
(***************************************************************************)
Digit(d) == << "0", "1", "2", "3", "4", "5", "6", "7", "8", "9" >>[d + 1]

RECURSIVE digits(_)
digits(n) == IF n < 10 THEN << Digit(n) >>
             ELSE digits(n \div 10) \o << Digit(n % 10) >>

\* "{}".format(n) of a Python int
format(n) == IF n < 0 THEN << "-" >> \o digits(-n) ELSE digits(n)

\* build_label printing the derived outer radius of the tray
build_label_derived_radius(inner_radius, spool_outer_radius, outer_radius, spool_height, wedge_size) ==
    LET inner_edge == inner_radius + ring_depth + ring_height
        outer_edge == outer_radius - latch_depth
        text_center == inner_edge + (outer_edge - inner_edge) \div 2
    IN  << KernelOp("text", "label",
                    << 18000, 0, -(wedge_size \div 2), text_center, 0, 0, 400, -25 >>,
                    << "R", "2", "S", "4", " ", "1", ".", "0", "\n" >>
                        \o format(int(inner_radius)) \o << " " >>
                        \o format(int(outer_radius)) \o << " " >>
                        \o format(int(spool_height)) \o << " " >>
                        \o format(int(wedge_size)),
                    << >>) >>

build_label(inner_radius, spool_outer_radius, outer_radius, spool_height, wedge_size) ==
    LET inner_edge == inner_radius + ring_depth + ring_height
        outer_edge == outer_radius - latch_depth
        text_center == inner_edge + (outer_edge - inner_edge) \div 2
    IN  << KernelOp("text", "label",
                    << 18000, 0, -(wedge_size \div 2), text_center, 0, 0, 400, -25 >>,
                    << "R", "2", "S", "4", " ", "1", ".", "0", "\n" >>
                        \o format(int(inner_radius)) \o << " " >>
                        \o format(int(spool_outer_radius)) \o << " " >>
                        \o format(int(spool_height)) \o << " " >>
                        \o format(int(wedge_size)),
                    << >>) >>

(***************************************************************************)
(* build_tray                                                              *)
(***************************************************************************)
\* what a call yields: the value returned, or the exception raised together
\* with the kernel operations performed up to that point
Returned(solid) == [status |-> "returned", exc |-> "", solid |-> solid]
Raised(exc, solid) == [status |-> "raised", exc |-> exc, solid |-> solid]

build_tray(m, inner_radius, spool_outer_radius, spool_height, wedge_size, wall_thickness, label) ==
    LET outer_radius == spool_outer_radius + beyond_edge
        height == spool_height - ring_height
        c == m.additional_clearance
        tray0 == revolve("tray_profile",
            << inner_radius, height - tray_top_chamfer - c,
               inner_radius + tray_top_chamfer, height - c,
               outer_radius - beyond_edge, height - c,
               outer_radius, height - beyond_edge,
               outer_radius, ring_height + latch_depth,
               outer_radius - latch_depth, ring_height,
               outer_radius - latch_depth + latch_protrude - c, 0,
               inner_radius + ring_depth + ring_height + c, 0,
               inner_radius + c, ring_depth + ring_height >>,
            wedge_size)
        tray1 == fillet(tray0, "|Z", tray_edge_fillet)
        tray2 == chamfer_tray_radial_edges(m, tray1, outer_radius, height, wedge_size)
        tray3 == add_handle(tray2, outer_radius, height, wedge_size)
        tray4 == cut_reinforcement_ribs(tray3, inner_radius, outer_radius,
                                        height, wedge_size)
        tray5 == IF wall_thickness > 0
                 THEN shell(tray4, "+Z", -wall_thickness)
                 ELSE tray4
        tray6 == IF label
                 THEN subtract(tray5, "label",
                               build_label(inner_radius, spool_outer_radius,
                                           outer_radius, spool_height, wedge_size))
                 ELSE tray5
    IN  IF rib_count(inner_radius, outer_radius) = 0
        THEN Raised("ZeroDivisionError", tray3)
        ELSE Returned(tray6)

(***************************************************************************)
(* Calling an assembler: Python binds the arguments to the signature       *)
(* before the body runs, and raises TypeError when they do not fit.        *)
(***************************************************************************)
Signature(fn) ==
    IF fn = "build_tray"
    THEN << "inner_radius", "spool_outer_radius", "spool_height", "wedge_size",
            "wall_thickness", "label" >>
    ELSE << "inner_radius", "spool_outer_radius", "spool_height", "wedge_size" >>

Required(fn) == 4

\* pos: the positional arguments; kw: the keyword arguments, name -> value
Accepts(fn, pos, kw) ==
    /\ Len(pos) <= Len(Signature(fn))
    /\ \A k \in DOMAIN kw :
          \E i \in (Len(pos) + 1) .. Len(Signature(fn)) : Signature(fn)[i] = k
    /\ \A i \in 1 .. Required(fn) :
          i <= Len(pos) \/ Signature(fn)[i] \in DOMAIN kw

Arg(fn, pos, kw, i, default) ==
    IF i <= Len(pos) THEN pos[i]
    ELSE IF Signature(fn)[i] \in DOMAIN kw THEN kw[Signature(fn)[i]]
    ELSE default

Call(m, fn, pos, kw) ==
    IF ~Accepts(fn, pos, kw) THEN Raised("TypeError", << >>)
    ELSE LET a(i) == Arg(fn, pos, kw, i, 0)
         IN  CASE fn = "build_base" ->
                    Returned(build_base(m, a(1), a(2), a(3), a(4)))
               [] fn = "build_placeholder" ->
                    Returned(build_placeholder(m, a(1), a(2), a(3), a(4)))
               [] fn = "build_tray" ->
                    build_tray(m, a(1), a(2), a(3), a(4), a(5),
                               Arg(fn, pos, kw, 6, TRUE))

(***************************************************************************)
(* generate_all.py: configuration                                          *)
(***************************************************************************)
output_root == << "./docs/stl" >>
output_root_parent == << "./docs" >>

\* inner is 347/(2 pi) and 283/(2 pi)
spools ==
    << [name |-> "filament_pm", inner |-> 5523, outer |-> 10000,
        height |-> 7000, additional_clearance |-> 0],
       [name |-> "matterhackers", inner |-> 4504, outer |-> 10000,
        height |-> 5500, additional_clearance |-> 10] >>

\* whole degrees
sizes == << 15, 30, 45, 60, 90, 120 >>

drv_nozzle_diameter == 40

\* the statements of one pass of the loop over sizes, in order: the base,
\* the trays for wall in range(1, 5), the placeholder
Parts ==
    << [fn |-> "build_base", name |-> "base", wall |-> 0],
       [fn |-> "build_tray", name |-> "tray", wall |-> 1],
       [fn |-> "build_tray", name |-> "tray", wall |-> 2],
       [fn |-> "build_tray", name |-> "tray", wall |-> 3],
       [fn |-> "build_tray", name |-> "tray", wall |-> 4],
       [fn |-> "build_placeholder", name |-> "placeholder", wall |-> 0] >>

subdirectory(spool) ==
    output_root \o << int(spool.inner), int(spool.outer), int(spool.height),
                      spool.name >>

filename(spool, size, part) == subdirectory(spool) \o << part.name, size, part.wall >>

\* the positional and the keyword arguments of the call made for a part
PartPos(spool, size, part) ==
    LET first == << spool.inner, spool.outer, spool.height, size * 100 >>
    IN  IF part.fn = "build_tray"
        THEN first \o << IF part.wall = 1 THEN 0
                         ELSE part.wall * drv_nozzle_diameter >>
        ELSE first

PartKw(spool, part) ==
    IF part.fn = "build_tray" THEN << >>
    ELSE [k \in {"additional_clearance"} |-> spool.additional_clearance]

\* .rotate((0,0,0),(0,0,1),-45-size/2) of the solid a call returned
rotate(solid, angle) ==
    Append(solid, KernelOp("rotate", "Z", << angle >>, << >>, << >>))

(***************************************************************************)
(* Inputs of the checked calls                                             *)
(***************************************************************************)
InnerRadii == {5523, 4504, 5000, -550}
SpoolOuterRadii == {10000, 5500, 4000}
SpoolHeights == {7000, 5500}
WedgeSizes == {1500, 3000, 12000, 0, 40000}
WallThicknesses == {0, 80, 160}
ClearanceValues == {-10, 0, 10, 25}

ArgVectors ==
    [inner_radius : InnerRadii, spool_outer_radius : SpoolOuterRadii,
     spool_height : SpoolHeights, wedge_size : WedgeSizes,
     wall_thickness : WallThicknesses, label : BOOLEAN]

\* directories that may exist when generate_all.py starts: a directory
\* exists only inside an existing parent
InitialDirs ==
    { {}, {output_root_parent}, {output_root_parent, output_root} }
    \cup { {output_root_parent, output_root} \cup d :
             d \in (SUBSET {subdirectory(spools[i]) : i \in 1 .. Len(spools)}) }

(***************************************************************************)
(* State                                                                   *)
(***************************************************************************)
VARIABLES
    main,                  \* what runs: a client of r2s4, or generate_all.py
    additional_clearance,  \* r2s4.additional_clearance
    latch_gap,             \* r2s4.latch_gap
    args,                  \* the client's parameter vector
    result,                \* what the client's call of each assembler yielded
    drv_pc,                \* generate_all.py: where the script is
    dirs,                  \* the directories that exist
    spool_i, size_i, part_i,  \* the loop positions
    stdout,                \* the lines printed
    calls,                 \* the assembler calls made, in order
    exported,              \* the files written by exporters.export
    failed,                \* the (spool, size, part) whose statement raised
    error                  \* the uncaught exception that ended the script

vars == << main, additional_clearance, latch_gap, args, result, drv_pc,
           dirs, spool_i, size_i, part_i, stdout, calls, exported, failed,
           error >>

client_vars == << args, result >>
driver_vars == << drv_pc, dirs, spool_i, size_i, part_i, stdout, calls,
                  exported, failed, error >>
module_vars == << main, additional_clearance, latch_gap >>

Globals == [additional_clearance |-> additional_clearance,
            latch_gap |-> latch_gap]

Assemblers == {"build_base", "build_tray", "build_placeholder"}

NoResult == [status |-> "none", exc |-> "", solid |-> << >>]

Init ==
    /\ main \in {"client", "generate_all"}
    /\ additional_clearance \in
          (IF main = "client" THEN ClearanceValues ELSE {shipped_clearance})
    /\ latch_gap = Module(additional_clearance).latch_gap
    /\ IF main = "client"
       THEN /\ args \in ArgVectors
            /\ dirs = {}
       ELSE /\ args = [inner_radius |-> 0, spool_outer_radius |-> 0,
                       spool_height |-> 0, wedge_size |-> 0,
                       wall_thickness |-> 0, label |-> FALSE]
            /\ dirs \in InitialDirs
    /\ result = [f \in Assemblers |-> NoResult]
    /\ drv_pc = "start"
    /\ spool_i = 1 /\ size_i = 1 /\ part_i = 1
    /\ stdout = << >>
    /\ calls = << >>
    /\ exported = {}
    /\ failed = << >>
    /\ error = ""

(***************************************************************************)
(* A client calls one of the three assemblers with its parameter vector    *)
(***************************************************************************)
CallBuildBase ==
    /\ main = "client"
    /\ result' = [result EXCEPT !["build_base"] = Call(Globals, "build_base",
                      << args.inner_radius, args.spool_outer_radius,
                         args.spool_height, args.wedge_size >>, << >>)]
    /\ UNCHANGED << module_vars, args, driver_vars >>

CallBuildTray ==
    /\ main = "client"
    /\ result' = [result EXCEPT !["build_tray"] = Call(Globals, "build_tray",
                      << args.inner_radius, args.spool_outer_radius,
                         args.spool_height, args.wedge_size,
                         args.wall_thickness, args.label >>, << >>)]
    /\ UNCHANGED << module_vars, args, driver_vars >>

CallBuildPlaceholder ==
    /\ main = "client"
    /\ result' = [result EXCEPT !["build_placeholder"] = Call(Globals, "build_placeholder",
                      << args.inner_radius, args.spool_outer_radius,
                         args.spool_height, args.wedge_size >>, << >>)]
    /\ UNCHANGED << module_vars, args, driver_vars >>

(***************************************************************************)
(* generate_all.py                                                         *)
(***************************************************************************)
\* lines 81-82: create the output directory if it does not exist; os.mkdir
\* raises FileNotFoundError when the parent directory is missing
DrvEnsureOutputRoot ==
    /\ main = "generate_all"
    /\ drv_pc = "start"
    /\ IF output_root \in dirs
       THEN /\ drv_pc' = "spool"
            /\ UNCHANGED << dirs, error >>
       ELSE IF output_root_parent \in dirs
       THEN /\ dirs' = dirs \cup {output_root}
            /\ drv_pc' = "spool"
            /\ UNCHANGED error
       ELSE /\ drv_pc' = "crashed"
            /\ error' = "FileNotFoundError"
            /\ UNCHANGED dirs
    /\ UNCHANGED << module_vars, client_vars, spool_i, size_i, part_i,
                    stdout, calls, exported, failed >>

\* the next spool begun without the directory check of lines 95-97
DrvSpoolBegin_without_mkdir ==
    /\ main = "generate_all"
    /\ drv_pc = "spool"
    /\ spool_i <= Len(spools)
    /\ stdout' = Append(stdout, subdirectory(spools[spool_i]))
    /\ size_i' = 1
    /\ part_i' = 1
    /\ drv_pc' = "part"
    /\ UNCHANGED << module_vars, client_vars, spool_i, calls, exported,
                    failed, error, dirs >>

\* lines 85-97: the next spool: print its subdirectory and create it if it
\* does not exist
DrvSpoolBegin ==
    /\ main = "generate_all"
    /\ drv_pc = "spool"
    /\ spool_i <= Len(spools)
    /\ stdout' = Append(stdout, subdirectory(spools[spool_i]))
    /\ dirs' = dirs \cup {subdirectory(spools[spool_i])}
    /\ size_i' = 1
    /\ part_i' = 1
    /\ drv_pc' = "part"
    /\ UNCHANGED << module_vars, client_vars, spool_i, calls, exported,
                    failed, error >>

\* lines 99-137: one part of the current (spool, size): print the file name,
\* call the assembler, rotate the solid, export it, and go on to the next
\* part, size or spool.  An exception is not caught anywhere in the script:
\* it ends the run.
DrvPart ==
    /\ main = "generate_all"
    /\ drv_pc = "part"
    /\ LET spool == spools[spool_i]
           size == sizes[size_i]
           part == Parts[part_i]
           file == filename(spool, size, part)
           res == Call(Globals, part.fn, PartPos(spool, size, part),
                       PartKw(spool, part))
       IN  /\ stdout' = Append(stdout, file)
           /\ calls' = Append(calls,
                  [fn |-> part.fn, spool |-> spool_i, size |-> size,
                   wall |-> part.wall,
                   pos |-> PartPos(spool, size, part),
                   accepted |-> Accepts(part.fn, PartPos(spool, size, part),
                                        PartKw(spool, part))])
           /\ IF res.status = "raised"
              THEN /\ drv_pc' = "crashed"
                   /\ error' = res.exc
                   /\ failed' = << spool_i, size_i, part_i >>
                   /\ UNCHANGED << exported, spool_i, size_i, part_i >>
              ELSE /\ exported' =
                        IF subdirectory(spool) \in dirs
                        THEN exported \cup
                             { [file |-> file,
                                solid |-> rotate(res.solid,
                                                 -4500 - (size * 100) \div 2)] }
                        ELSE exported
                   /\ UNCHANGED << error, failed >>
                   /\ IF part_i < Len(Parts)
                      THEN /\ part_i' = part_i + 1
                           /\ UNCHANGED << size_i, spool_i, drv_pc >>
                      ELSE IF size_i < Len(sizes)
                      THEN /\ part_i' = 1
                           /\ size_i' = size_i + 1
                           /\ UNCHANGED << spool_i, drv_pc >>
                      ELSE /\ part_i' = 1
                           /\ size_i' = 1
                           /\ spool_i' = spool_i + 1
                           /\ drv_pc' = IF spool_i < Len(spools)
                                        THEN "spool" ELSE "done"
    /\ UNCHANGED << module_vars, client_vars, dirs >>

Next ==
    \/ CallBuildBase
    \/ CallBuildTray
    \/ CallBuildPlaceholder
    \/ DrvEnsureOutputRoot
    \/ DrvSpoolBegin
    \/ DrvPart

Spec == Init /\ [][Next]_vars

(***************************************************************************)
(* Reading a construction history                                          *)
(***************************************************************************)
\* every (operation, feature) of a solid, those of its tools included
RECURSIVE Features(_)
Features(solid) ==
    UNION { { << solid[i].op, solid[i].what >> } \cup Features(solid[i].tool) :
            i \in 1 .. Len(solid) }

\* the stage of the assembly a feature belongs to
StageOf(what) ==
    CASE what = "ring_root_profile" -> "ring_root"
      [] what \in {"rail", "rail_cleanup"} -> "side_rails"
      [] what = "outer_fence" -> "fence"
      [] what \in {"claw_slot_outer", "claw_arm_outer", "claw_slot_inner",
                   "claw_arm_inner", "claw_tip_outer", "claw_tip_inner",
                   "bore_cleanup"} -> "interlink"
      [] what = "ring_chamfer_cut" -> "chamfer_cut"
      [] what = "tray_profile" -> "silhouette"
      [] what = "|Z" -> "fillet"
      [] what \in {"top_edge", "bottom_edge"} -> "radial_chamfers"
      [] what \in {"handle_cutout", "handle_add"} -> "handle"
      [] what = "rib" -> "ribs"
      [] what = "+Z" -> "shell"
      [] what = "label" -> "label"
      [] OTHER -> what

\* the stages of a history in order, a run of one stage counted once
RECURSIVE Stages(_)
Stages(solid) ==
    IF solid = << >> THEN << >>
    ELSE LET rest == Stages(Tail(solid))
             st == StageOf(Head(solid).what)
         IN  IF rest # << >> /\ Head(rest) = st THEN rest ELSE << st >> \o rest

OpsOf(solid, what) == SelectSeq(solid, LAMBDA o : o.what = what)

ValidVector ==
    /\ args.wedge_size > 0 /\ args.wedge_size <= 36000
    /\ args.inner_radius > 0
    /\ args.spool_outer_radius > 0
    /\ args.inner_radius < args.spool_outer_radius + beyond_edge
    /\ additional_clearance >= 0

\* a valid vector for an actual spool: the hub is smaller than the flange
SpoolVector == ValidVector /\ args.inner_radius < args.spool_outer_radius

(***************************************************************************)
(* C1: every build_base call applies to the base, in this order, the       *)
(* revolve of the ring-root profile by wedge_size, the union of the side   *)
(* rails, the union of the outer fence with its retention tab, the         *)
(* interlink mechanism and the subtraction of the inner corner chamfer     *)
(* cut; no label, rib or handle operation is applied to a base.            *)
(***************************************************************************)
C1_BaseOrder ==
    result["build_base"].status # "none" =>
        LET base == result["build_base"].solid
            n == Len(base)
        IN  /\ result["build_base"].status = "returned"
            /\ Stages(base) = << "ring_root", "side_rails", "fence",
                                 "interlink", "chamfer_cut" >>
            /\ base[1].op = "revolve"
            /\ base[1].dims = ring_root_profile(args.inner_radius)
                                \o << args.wedge_size >>
            /\ \A i \in 1 .. n : base[i].what = "rail" => base[i].op = "union"
            /\ Len(OpsOf(base, "rail")) = 2
            /\ \A i \in 1 .. n :
                  base[i].what = "outer_fence" =>
                      /\ base[i].op = "union"
                      /\ << "union", "fence_tab" >> \in Features(base[i].tool)
            /\ base[n].op = "subtract"
            /\ Len(OpsOf(base, "ring_chamfer_cut")) = 1
            /\ \A f \in Features(base) :
                  /\ f[1] \notin {"text", "fillet", "shell"}
                  /\ StageOf(f[2]) \notin {"label", "ribs", "handle"}

C1_Witness ==
    /\ result["build_base"].status = "returned"
    /\ ValidVector
    /\ Len(result["build_base"].solid) = 13

(***************************************************************************)
(* C2: every build_tray call runs the pipeline revolve silhouette, fillet  *)
(* vertical edges, subtract radial chamfers, apply handle, subtract ribs,  *)
(* shell, label; the shell is performed exactly when wall_thickness > 0,   *)
(* with thickness wall_thickness, and the label subtraction exactly when   *)
(* a label is requested.                                                   *)
(***************************************************************************)
TrayStagesExpected ==
    << "silhouette", "fillet", "radial_chamfers", "handle" >>
    \o (IF Len(OpsOf(result["build_tray"].solid, "rib")) > 0
        THEN << "ribs" >> ELSE << >>)
    \o (IF args.wall_thickness > 0 THEN << "shell" >> ELSE << >>)
    \o (IF args.label THEN << "label" >> ELSE << >>)

TrayPipelineAsClaimed ==
    LET tray == result["build_tray"].solid
    IN  /\ Stages(tray) = TrayStagesExpected
        /\ tray[1].op = "revolve"
        /\ tray[1].dims[Len(tray[1].dims)] = args.wedge_size
        /\ \A i \in 1 .. Len(tray) :
              tray[i].op = "shell" => tray[i].dims = << -args.wall_thickness >>
        /\ Len(OpsOf(tray, "+Z")) = (IF args.wall_thickness > 0 THEN 1 ELSE 0)
        /\ Len(OpsOf(tray, "label")) = (IF args.label THEN 1 ELSE 0)

C2_TrayPipeline ==
    (result["build_tray"].status # "none" /\ SpoolVector) => TrayPipelineAsClaimed

\* the same, of the calls that return
C2_TrayPipelineOfReturned ==
    result["build_tray"].status = "returned" => TrayPipelineAsClaimed

(***************************************************************************)
(* C3: build_placeholder(p) is build_base(p) followed by one intersection  *)
(* with the ring-root profile revolved through 360 degrees, nothing added  *)
(* or removed.                                                             *)
(***************************************************************************)
C3_PlaceholderIsBaseCut ==
    (result["build_placeholder"].status # "none"
        /\ result["build_base"].status # "none") =>
        LET ph == result["build_placeholder"].solid
            base == result["build_base"].solid
        IN  /\ result["build_placeholder"].status = result["build_base"].status
            /\ Len(ph) = Len(base) + 1
            /\ SubSeq(ph, 1, Len(base)) = base
            /\ ph[Len(ph)].op = "intersect"
            /\ Len(ph[Len(ph)].tool) = 1
            /\ ph[Len(ph)].tool[1].op = "revolve"
            /\ ph[Len(ph)].tool[1].dims =
                   << 0, 0,
                      0, ring_height,
                      args.inner_radius + ring_depth, ring_height,
                      args.inner_radius + ring_depth + ring_height, 0,
                      36000 >>

C3_Witness ==
    /\ result["build_placeholder"].status = "returned"
    /\ result["build_base"].status = "returned"
    /\ ValidVector
    /\ args.wedge_size < 36000

(***************************************************************************)
(* C4: the four numeric fields of the label of a tray are, in order, the   *)
(* integer truncations of inner_radius, spool_outer_radius (not the        *)
(* derived outer_radius), spool_height and wedge_size.                     *)
(***************************************************************************)
DigitValue(c) == CHOOSE d \in 0 .. 9 : Digit(d) = c

RECURSIVE ParseDigits(_)
ParseDigits(cs) ==
    IF cs = << >> THEN 0
    ELSE ParseDigits(SubSeq(cs, 1, Len(cs) - 1)) * 10 + DigitValue(cs[Len(cs)])

ParseInt(cs) == IF Head(cs) = "-" THEN -ParseDigits(Tail(cs)) ELSE ParseDigits(cs)

\* the pieces of a text between occurrences of a separator
RECURSIVE Split(_, _)
Split(cs, sep) ==
    IF \A i \in 1 .. Len(cs) : cs[i] # sep THEN << cs >>
    ELSE LET k == CHOOSE i \in 1 .. Len(cs) :
                      cs[i] = sep /\ \A j \in 1 .. (i - 1) : cs[j] # sep
         IN  << SubSeq(cs, 1, k - 1) >> \o Split(SubSeq(cs, k + 1, Len(cs)), sep)

\* the numbers on the second line of a label text
LabelFields(text) ==
    LET fields == Split(Split(text, "\n")[2], " ")
    IN  [i \in 1 .. Len(fields) |-> ParseInt(fields[i])]

\* truncation toward zero of a length or angle to whole units
Truncated(x, n) ==
    IF x >= 0 THEN n >= 0 /\ n * 100 <= x /\ x < (n + 1) * 100
    ELSE n <= 0 /\ n * 100 >= x /\ x > (n - 1) * 100

C4_LabelFields ==
    (result["build_tray"].status = "returned" /\ args.label) =>
        LET tray == result["build_tray"].solid
            label == tray[Len(tray)].tool
            fields == LabelFields(label[1].text)
        IN  /\ tray[Len(tray)].what = "label"
            /\ Len(fields) = 4
            /\ Truncated(args.inner_radius, fields[1])
            /\ Truncated(args.spool_outer_radius, fields[2])
            /\ Truncated(args.spool_height, fields[3])
            /\ Truncated(args.wedge_size, fields[4])

C4_Witness ==
    /\ result["build_tray"].status = "returned"
    /\ args.label
    /\ args.inner_radius = 5523
    /\ LabelFields(result["build_tray"].solid[
           Len(result["build_tray"].solid)].tool[1].text)
         = << 55, 100, 70, 15 >>

(***************************************************************************)
(* C5: rib layout of cut_reinforcement_ribs                                *)
(***************************************************************************)
\* q is a / b truncated toward zero (b # 0)
TruncatedQuotient(a, b, q) ==
    LET n == IF a >= 0 THEN a ELSE -a
        d == IF b >= 0 THEN b ELSE -b
        m == IF q >= 0 THEN q ELSE -q
    IN  /\ m * d <= n /\ n < (m + 1) * d
        /\ (q > 0 => (a >= 0) = (b >= 0))
        /\ (q < 0 => (a >= 0) # (b >= 0))

\* the rib cuts of the tray, in the order made
TrayRibs == OpsOf(result["build_tray"].solid, "rib")
RibAngle(i) == TrayRibs[i].tool[1].dims[1]
\* distance of a rib from the inner end of the span
RibOffset(i) == TrayRibs[i].tool[1].dims[2] - args.inner_radius

\* outer_radius - beyond_edge - inner_radius, untruncated
RealSpan ==
    (args.spool_outer_radius + beyond_edge) - beyond_edge - args.inner_radius

\* C5 as amended: the span is truncated to whole millimetres, the count is
\* the truncation of span / 7.5 and the spacing the truncation of
\* span / count; on each boundary the ribs stand at every multiple of that
\* spacing below the truncated span, so that the gaps between the inner end
\* and the first rib and between consecutive ribs equal the spacing, and the
\* last rib is at most one spacing short of the truncated span.
C5_RibLayoutTruncated ==
    result["build_tray"].status = "returned" =>
        LET n == Len(TrayRibs) \div 2
            span == CHOOSE k \in -200 .. 200 : Truncated(RealSpan, k)
            count == CHOOSE k \in -30 .. 30 :
                         TruncatedQuotient(span * 100, rib_spacing_target, k)
            spacing == CHOOSE k \in 1 .. 200 : TruncatedQuotient(span, count, k)
        IN  /\ count # 0
            /\ Len(TrayRibs) = 2 * n
            /\ \A i \in 1 .. n :
                  /\ RibAngle(i) = 0
                  /\ RibAngle(n + i) = args.wedge_size
                  /\ RibOffset(n + i) = RibOffset(i)
                  /\ RibOffset(i) = i * spacing * 100
            /\ n * spacing < span \/ n = 0
            /\ (n + 1) * spacing >= span

C5_Witness ==
    /\ result["build_tray"].status = "returned"
    /\ ValidVector
    /\ Len(TrayRibs) = 10
    /\ RibOffset(1) = 800
    /\ RealSpan - RibOffset(5) = 477

\* C5 as claimed: count = floor(span / 7.5) of the untruncated span, and
\* the ribs divide the span evenly: every gap, the two end gaps included,
\* is span / count.
C5_RibsEvenAcrossSpan ==
    (result["build_tray"].status = "returned" /\ SpoolVector
        /\ RealSpan >= rib_spacing_target) =>
        LET n == Len(TrayRibs) \div 2
            count == RealSpan \div rib_spacing_target
        IN  /\ n = count - 1
            /\ \A i \in 1 .. n : RibOffset(i) * count = i * RealSpan

(***************************************************************************)
(* C6: interlink arms against the slots of a neighbouring copy             *)
(***************************************************************************)
Min2(a, b) == IF a <= b THEN a ELSE b
Max2(a, b) == IF a >= b THEN a ELSE b

\* radial and angular extent of a partial ring, from its loft dimensions
Extent(d) ==
    [r0 |-> Min2(d[1], d[2]), r1 |-> Max2(d[1], d[2]),
     a0 |-> Min2(Min2(d[3], d[4]), Min2(d[5], d[6])),
     a1 |-> Max2(Max2(d[3], d[4]), Max2(d[5], d[6]))]

\* extent of a partial ring after the cuts recorded in its history: a cut
\* that spans its whole angle and reaches one radial end shortens it
RECURSIVE ExtentAfterCuts(_, _)
ExtentAfterCuts(e, cuts) ==
    IF cuts = << >> THEN e
    ELSE LET c == Extent(Head(cuts).tool[1].dims)
             covers == c.a0 <= e.a0 /\ e.a1 <= c.a1
             e1 == IF covers /\ c.r0 <= e.r0
                   THEN [e EXCEPT !.r0 = Max2(e.r0, c.r1)]
                   ELSE IF covers /\ c.r1 >= e.r1
                   THEN [e EXCEPT !.r1 = Min2(e.r1, c.r0)]
                   ELSE e
         IN  ExtentAfterCuts(e1, Tail(cuts))

FeatureExtent(base, what) ==
    LET tool == OpsOf(base, what)[1].tool
    IN  ExtentAfterCuts(Extent(tool[1].dims), Tail(tool))

Rotated(e, angle) == [e EXCEPT !.a0 = e.a0 + angle, !.a1 = e.a1 + angle]

Inside(e, slot) ==
    /\ slot.r0 <= e.r0 /\ e.r1 <= slot.r1
    /\ slot.a0 <= e.a0 /\ e.a1 <= slot.a1

Overlap(e, f) ==
    /\ e.r0 < f.r1 /\ f.r0 < e.r1
    /\ e.a0 < f.a1 /\ f.a0 < e.a1

\* the material a base adds after its slots are cut
AddedClaws == {"claw_arm_outer", "claw_arm_inner", "claw_tip_outer", "claw_tip_inner"}

ArmsFitSlots(base) ==
    LET w == args.wedge_size
        arm_outer == FeatureExtent(base, "claw_arm_outer")
        arm_inner == FeatureExtent(base, "claw_arm_inner")
    IN  /\ Inside(arm_outer, Rotated(FeatureExtent(base, "claw_slot_outer"), w))
        /\ Inside(arm_inner, Rotated(FeatureExtent(base, "claw_slot_inner"), -w))
        /\ \A f \in AddedClaws :
              /\ ~Overlap(arm_outer, Rotated(FeatureExtent(base, f), w))
              /\ ~Overlap(arm_inner, Rotated(FeatureExtent(base, f), -w))

SupportedWedge == args.wedge_size >= 1500 /\ args.wedge_size <= 12000

ArcLength(r, a) == (r * a * 3) \div (180 * 100)

ArmSlotGap(base) ==
    FeatureExtent(base, "claw_slot_outer").r1
        - FeatureExtent(base, "claw_arm_outer").r1

\* foot of the fence to the foot of the tray latch, both at z = 0
LatchFenceGap(base, tray) ==
    OpsOf(base, "outer_fence")[1].tool[1].dims[1] - tray[1].dims[13]

\* foot of the tray's inner slope to the foot of the ring root, at z = 0
RingRootGap(base, tray) == tray[1].dims[15] - base[1].dims[7]

\* half width of the tray's bottom edge cut less half width of the rail
RailGap(base, tray) ==
    OpsOf(tray, "bottom_edge")[1].tool[1].dims[6]
        - OpsOf(base, "rail")[1].tool[1].dims[6]

BaseWith(c) ==
    build_base(Module(c), args.inner_radius, args.spool_outer_radius,
               args.spool_height, args.wedge_size)

TrayWith(c) ==
    build_tray(Module(c), args.inner_radius, args.spool_outer_radius,
               args.spool_height, args.wedge_size,
               args.wall_thickness, args.label).solid

BuiltPair ==
    /\ result["build_base"].status = "returned"
    /\ result["build_tray"].status # "none"
    /\ SpoolVector

C7_GapsGrowWithClearance ==
    BuiltPair =>
        LET base == result["build_base"].solid
            tray == result["build_tray"].solid
        IN  \A c \in ClearanceValues :
               (0 <= c /\ c < additional_clearance) =>
                  /\ LatchFenceGap(base, tray) > LatchFenceGap(BaseWith(c), TrayWith(c))
                  /\ RingRootGap(base, tray) > RingRootGap(BaseWith(c), TrayWith(c))
                  /\ RailGap(base, tray) > RailGap(BaseWith(c), TrayWith(c))
                  /\ ArmSlotGap(base) > ArmSlotGap(BaseWith(c))

\* what holds of the code: the gaps between tray and base grow with the
\* clearance, the gap of the interlink arm does not change
TrayGapsGrowArmGapFixed ==
    BuiltPair =>
        LET base == result["build_base"].solid
            tray == result["build_tray"].solid
        IN  \A c \in ClearanceValues :
               (0 <= c /\ c < additional_clearance) =>
                  /\ LatchFenceGap(base, tray) > LatchFenceGap(BaseWith(c), TrayWith(c))
                  /\ RingRootGap(base, tray) > RingRootGap(BaseWith(c), TrayWith(c))
                  /\ RailGap(base, tray) > RailGap(BaseWith(c), TrayWith(c))
                  /\ ArmSlotGap(base) = ArmSlotGap(BaseWith(c))

(***************************************************************************)
(* C8: a call of an assembler with an invalid parameter vector (wedge_size *)
(* outside (0, 360], a non-positive radius, inner_radius not below         *)
(* outer_radius, negative clearance) fails before any kernel operation.    *)
(***************************************************************************)
C8_InvalidRejectedBeforeKernel ==
    \A f \in Assemblers :
        (result[f].status # "none" /\ ~ValidVector) =>
            /\ result[f].status = "raised"
            /\ result[f].solid = << >>

(***************************************************************************)
(* C9: in the batch driver the failure of one (spool, size, part) is       *)
(* reported and the remaining combinations are processed; a single failure *)
(* never ends the run.                                                     *)
(***************************************************************************)
C9_FailureDoesNotEndRun ==
    failed # << >> => (drv_pc # "crashed" /\ error = "")

(***************************************************************************)
(* C10: a run of the batch driver ends having called, for every (spool,    *)
(* size), build_base once, build_tray once per wall 1..4 (wall 1 with      *)
(* wall_thickness 0, walls 2..4 with wall * nozzle_diameter) and           *)
(* build_placeholder once, each call accepted by its assembler and         *)
(* followed by an export under the spool's directory.                      *)
(***************************************************************************)
CallsOf(f, s, z, wall) ==
    { i \in 1 .. Len(calls) :
        /\ calls[i].fn = f /\ calls[i].spool = s
        /\ calls[i].size = z /\ calls[i].wall = wall }

C10_EveryPartBuiltAndExported ==
    /\ \A i \in 1 .. Len(calls) :
          /\ calls[i].accepted
          /\ (i < Len(calls) \/ drv_pc # "crashed") =>
                \E e \in exported :
                    e.file = filename(spools[calls[i].spool], calls[i].size,
                                      [name |-> IF calls[i].fn = "build_base" THEN "base"
                                                ELSE IF calls[i].fn = "build_tray" THEN "tray"
                                                ELSE "placeholder",
                                       wall |-> calls[i].wall])
          /\ calls[i].fn = "build_tray" =>
                calls[i].pos[5] = (IF calls[i].wall = 1 THEN 0
                                   ELSE calls[i].wall * 40)
    /\ drv_pc = "done" =>
          \A s \in 1 .. Len(spools) : \A k \in 1 .. Len(sizes) :
              /\ Cardinality(CallsOf("build_base", s, sizes[k], 0)) = 1
              /\ Cardinality(CallsOf("build_placeholder", s, sizes[k], 0)) = 1
              /\ \A wall \in 1 .. 4 :
                    Cardinality(CallsOf("build_tray", s, sizes[k], wall)) = 1

(***************************************************************************)
(* C11: in the batch driver every export is preceded by an existence check *)
(* or creation of its target directory: wherever the script stands at the  *)
(* statements that build and export a part, the output root and the        *)
(* current spool's subdirectory exist, every exported file lies in an      *)
(* existing spool subdirectory, and a run that could not make its          *)
(* directory exist has stopped with an error and exported nothing.         *)
(***************************************************************************)
DirectoryOf(file) ==
    CHOOSE d \in {subdirectory(spools[i]) : i \in 1 .. Len(spools)} :
        /\ Len(file) > Len(d)
        /\ SubSeq(file, 1, Len(d)) = d

C11_MkdirFailure ==
    drv_pc = "crashed" /\ error = "FileNotFoundError" /\ dirs = {}

(***************************************************************************)
(* C12: every part the batch driver builds for a spool (base, each tray,   *)
(* placeholder) uses that spool's own configured additional_clearance in   *)
(* its geometry: each call the driver makes returns the solid the          *)
(* assembler builds under the spool's clearance, never one built under     *)
(* another spool's value or the module-level default.                      *)
(***************************************************************************)
\* the part an assembler builds from the positional arguments of a call when
\* the clearance in force is the spool's own
PartUnderSpoolClearance(spool, fn, pos) ==
    Call(Module(spool.additional_clearance), fn, pos, << >>)

\* what the call of the driver for a part returns in the current module state
PartAsCalled(spool, size, part) ==
    Call(Globals, part.fn, PartPos(spool, size, part), PartKw(spool, part))

C12_PartsUseSpoolClearance ==
    \A i \in 1 .. Len(calls) :
        LET spool == spools[calls[i].spool]
            part == [fn |-> calls[i].fn, wall |-> calls[i].wall]
            built == Call(Globals, calls[i].fn, calls[i].pos, PartKw(spool, part))
            own == PartUnderSpoolClearance(spool, calls[i].fn, calls[i].pos)
        IN  /\ built.status = "returned"
            /\ built.solid = own.solid

\* the tray calls of the driver pass no clearance: each would return the
\* tray of the module-level default, which differs from the tray of the
\* spool's own clearance
C12_TrayCallsUseModuleDefault ==
    main = "generate_all" =>
        \A s \in 1 .. Len(spools) : \A k \in 1 .. Len(sizes) :
            \A p \in 2 .. 5 :
                LET spool == spools[s]
                    pos == PartPos(spool, sizes[k], Parts[p])
                    built == PartAsCalled(spool, sizes[k], Parts[p])
                IN  /\ built.status = "returned"
                    /\ built.solid = Call(Module(shipped_clearance), "build_tray", pos, << >>).solid
                    /\ built.solid # PartUnderSpoolClearance(spool, "build_tray", pos).solid

(***************************************************************************)
(* C13: in build_base no material is added after the last removal of the   *)
(* spool-bore region: every operation that creates or adds material (ring  *)
(* root, rails, fence and tab, claw arms, claw tips) is followed by a      *)
(* cleanup that removes everything at radius below inner_radius +          *)
(* additional_clearance, only subtractions follow the final cleanup, and   *)
(* the finished base has no material inside the bore cylinder of that      *)
(* radius over heights 0 to ring_height.                                   *)
(***************************************************************************)
\* the operation removes all material at radius below r over heights 0 to h:
\* the subtraction of a cylinder at least that wide and tall standing on
\* z = 0, or the intersection with an annulus whose hole is at least that
\* wide
RemovesBore(o, r, h) ==
    \/ /\ o.op = "subtract"
       /\ Len(o.tool) = 1
       /\ o.tool[1].op = "extrude" /\ o.tool[1].what = "bore_cleanup"
       /\ o.tool[1].dims[1] >= r /\ o.tool[1].dims[2] >= h
    \/ /\ o.op = "intersect"
       /\ Len(o.tool) = 1
       /\ o.tool[1].op = "extrude" /\ o.tool[1].what = "rail_cleanup"
       /\ o.tool[1].dims[2] >= r

\* the operation creates or adds material
AddsMaterial(o) == o.op \in {"revolve", "extrude", "loft", "sphere", "union"}

\* after the operations of the history, material may stand inside the bore
\* cylinder (radius r, heights 0 to h): anything created or added may reach
\* into it, a cleanup empties it, any other cut leaves it as it was
RECURSIVE MayFillBore(_, _, _)
MayFillBore(solid, r, h) ==
    IF solid = << >> THEN FALSE
    ELSE LET o == solid[Len(solid)]
         IN  IF AddsMaterial(o) THEN TRUE
             ELSE IF RemovesBore(o, r, h) THEN FALSE
             ELSE MayFillBore(SubSeq(solid, 1, Len(solid) - 1), r, h)

C13_NoMaterialAfterBoreCleanup ==
    (result["build_base"].status = "returned" /\ ValidVector) =>
        LET base == result["build_base"].solid
            r == args.inner_radius + additional_clearance
            cleanups == { i \in 1 .. Len(base) : RemovesBore(base[i], r, ring_height) }
        IN  /\ cleanups # {}
            /\ \A i \in 1 .. Len(base) :
                  /\ AddsMaterial(base[i]) => \E j \in cleanups : j > i
                  /\ (\A j \in cleanups : j < i) => base[i].op = "subtract"
            /\ ~MayFillBore(base, r, ring_height)

\* a base of a real spool built with a positive clearance: the claw tips
\* are the last material added, the bore cleanup follows them and only the
\* chamfer cut comes after it
C13_Witness ==
    /\ result["build_base"].status = "returned"
    /\ SpoolVector
    /\ additional_clearance > 0
    /\ LET base == result["build_base"].solid
       IN  /\ Len(base) = 13
           /\ base[11].op = "union" /\ base[11].what = "claw_tip_inner"
           /\ RemovesBore(base[12], args.inner_radius + additional_clearance, ring_height)
           /\ base[13].op = "subtract" /\ base[13].what = "ring_chamfer_cut"

(***************************************************************************)
(* C14: for every parameter vector with 0 < inner_radius <                 *)
(* spool_outer_radius (here: with a wedge in (0, 360] and a non-negative   *)
(* clearance besides) the rib layout computation of cut_reinforcement_ribs *)
(* yields rib_count >= 1 and rib_spacing >= 1 and completes without a      *)
(* division by zero or a zero range step: build_tray does not fail in the  *)
(* rib arithmetic.                                                         *)
(***************************************************************************)
C14_RibArithmeticCompletes ==
    (result["build_tray"].status # "none" /\ SpoolVector) =>
        LET outer_radius == args.spool_outer_radius + beyond_edge
        IN  /\ result["build_tray"].exc # "ZeroDivisionError"
            /\ rib_count(args.inner_radius, outer_radius) >= 1
            /\ rib_spacing(args.inner_radius, outer_radius) >= 1

\* the same of the spools whose flange reaches at least 8 mm beyond the hub:
\* the truncated span is at least 8, one rib or more is counted and the
\* range step is positive
C14_RibArithmeticOfWideSpools ==
    (result["build_tray"].status # "none" /\ SpoolVector
        /\ args.spool_outer_radius - args.inner_radius >= 800) =>
        LET outer_radius == args.spool_outer_radius + beyond_edge
        IN  /\ result["build_tray"].status = "returned"
            /\ rib_count(args.inner_radius, outer_radius) >= 1
            /\ rib_spacing(args.inner_radius, outer_radius) >= 1

====
